---- MODULE Spec2Model ----
(***************************************************************************)
(* Model of src/ip_utils.py: the session readers, the IP resolver          *)
(* (get_client_ip), the geolocation resolver (get_city_from_ip), the city  *)
(* name normaliser and the allow-list matcher.                             *)
(*                                                                         *)
(* Python values are records tagged with their type.  A Python str is a    *)
(* sequence of one-character tokens, so that strip(), lower(),             *)
(* startswith() and the two regular expressions are computed character by  *)
(* character.  A non-ASCII character is a token named after it             *)
(* ("a_tilde"); a combining mark is a token "comb_...".  A str the code     *)
(* only passes along (a URL, an error message) is a TLA+ string.           *)
(***************************************************************************)
EXTENDS Integers, Sequences, FiniteSets, TLC

(***************************************************************************)
(* Python values                                                           *)
(***************************************************************************)
None == [t |-> "NoneType"]
S(s) == [t |-> "str", s |-> s]
PyInt(n) == [t |-> "int", n |-> n]
Bool(b) == [t |-> "bool", b |-> b]
\* a JSON array where a JSON object is expected
PyList == [t |-> "list"]
Dict(d) == [t |-> "dict", d |-> d]

\* Python truth value of an object (`if x:` / `not x`).
Truthy(v) ==
    CASE v.t = "NoneType" -> FALSE
      [] v.t = "str" -> Len(v.s) > 0
      [] v.t = "int" -> v.n # 0
      [] v.t = "bool" -> v.b
      [] v.t = "list" -> FALSE
      [] v.t = "dict" -> DOMAIN v.d # {}

\* dict.get(key, default)
DictGet(d, key, default) == IF key \in DOMAIN d THEN d[key] ELSE default

(***************************************************************************)
(* Python str operations                                                   *)
(***************************************************************************)
UpperAZ == <<"A","B","C","D","E","F","G","H","I","J","K","L","M",
             "N","O","P","Q","R","S","T","U","V","W","X","Y","Z">>
LowerAZ == <<"a","b","c","d","e","f","g","h","i","j","k","l","m",
             "n","o","p","q","r","s","t","u","v","w","x","y","z">>

UpperSet == {UpperAZ[n] : n \in DOMAIN UpperAZ}
IsUpperAZ(c) == c \in UpperSet
IsSpace(c) == c \in {" ", "\t", "\n", "\r"}

\* str.lower(), one character
LowerChar(c) ==
    IF IsUpperAZ(c)
    THEN LowerAZ[CHOOSE i \in DOMAIN UpperAZ : UpperAZ[i] = c]
    ELSE c
Lower(s) == [i \in 1..Len(s) |-> LowerChar(s[i])]

\* str.strip()
Strip(s) ==
    LET keep == {i \in 1..Len(s) : ~IsSpace(s[i])}
    IN IF keep = {} THEN <<>>
       ELSE LET lo == CHOOSE i \in keep : \A j \in keep : i <= j
                hi == CHOOSE i \in keep : \A j \in keep : j <= i
            IN SubSeq(s, lo, hi)

\* str.startswith(prefix)
StartsWith(s, prefix) ==
    Len(s) >= Len(prefix) /\ SubSeq(s, 1, Len(prefix)) = prefix

\* unicodedata.normalize('NFKD', c) for one character: a precomposed letter
\* becomes its base letter followed by the combining mark.
NFKDChar(c) ==
    CASE c = "a_tilde" -> <<"a", "comb_tilde">>
      [] c = "A_tilde" -> <<"A", "comb_tilde">>
      [] c = "i_acute" -> <<"i", "comb_acute">>
      [] c = "a_acute" -> <<"a", "comb_acute">>
      [] c = "c_cedilla" -> <<"c", "comb_cedilla">>
      [] OTHER -> <<c>>

RECURSIVE NFKD(_)
NFKD(s) == IF s = <<>> THEN <<>> ELSE NFKDChar(Head(s)) \o NFKD(Tail(s))

\* unicodedata.combining(c) # 0
Combining(c) == c \in {"comb_tilde", "comb_acute", "comb_cedilla"}

AllSpace(s, lo, hi) == \A k \in lo..hi : IsSpace(s[k])

(***************************************************************************)
(* normalize_city_name                                                     *)
(***************************************************************************)
\* re.sub(r'\s*-\s*[A-Z]{2}\s*$', '', s): the pattern has no IGNORECASE flag,
\* so [A-Z] is the 26 ASCII capitals only.  A match starting at i runs to the
\* end of s; the leftmost match is removed.
RegionSuffixAt(s, i) ==
    \E j \in i..Len(s) :
        /\ s[j] = "-"
        /\ AllSpace(s, i, j - 1)
        /\ \E k \in (j + 1)..(Len(s) - 1) :
              /\ IsUpperAZ(s[k])
              /\ IsUpperAZ(s[k + 1])
              /\ AllSpace(s, j + 1, k - 1)
              /\ AllSpace(s, k + 2, Len(s))

SubRegionSuffix(s) ==
    LET starts == {i \in 1..Len(s) : RegionSuffixAt(s, i)}
    IN IF starts = {} THEN s
       ELSE SubSeq(s, 1, (CHOOSE i \in starts : \A j \in starts : i <= j) - 1)

\* re.sub(r'\s*,\s*.*$', '', s): '.' does not match a newline, and '$'
\* matches at the end of s or before a newline that ends s.  CommaTailEnd is
\* the end of the match that starts at i (0: no match there).
CommaTailEnd(s, i) ==
    LET ends == {e \in {Len(s) - 1, Len(s)} :
                   /\ e >= i
                   /\ (e = Len(s) - 1 => s[Len(s)] = "\n")
                   /\ \E j \in i..e :
                         /\ s[j] = ","
                         /\ AllSpace(s, i, j - 1)
                         /\ \E k \in (j + 1)..(e + 1) :
                               /\ AllSpace(s, j + 1, k - 1)
                               /\ \A m \in k..e : s[m] # "\n"}
    IN IF ends = {} THEN 0
       ELSE CHOOSE e \in ends : \A f \in ends : f <= e

SubCommaTail(s) ==
    LET starts == {i \in 1..Len(s) : CommaTailEnd(s, i) # 0}
    IN IF starts = {} THEN s
       ELSE LET i == CHOOSE x \in starts : \A y \in starts : x <= y
            IN SubSeq(s, 1, i - 1) \o SubSeq(s, CommaTailEnd(s, i) + 1, Len(s))

\* str(v), also as an f-string formats v
PyStr(v) ==
    CASE v.t = "str" -> v.s
      [] v.t = "NoneType" -> <<"N","o","n","e">>

normalize_city_name(city_name) ==
    IF ~Truthy(city_name) THEN S(<<>>)
    ELSE LET nfkd == NFKD(PyStr(city_name))
             city_normalized == SelectSeq(nfkd, LAMBDA c : ~Combining(c))
             city_clean0 == Strip(Lower(city_normalized))
             city_clean1 == SubRegionSuffix(city_clean0)
             city_clean2 == SubCommaTail(city_clean1)
         IN S(city_clean2)

(***************************************************************************)
(* is_city_allowed                                                         *)
(***************************************************************************)
\* AllowedScan that gives up at the first entry that does not match.
AllowedScan_FirstOnly(city_normalized, allowed_cities) ==
    IF allowed_cities = <<>> THEN FALSE
    ELSE city_normalized = normalize_city_name(Head(allowed_cities))

\* for allowed_city in allowed_cities: ... return True; return False
RECURSIVE AllowedScan(_, _)
AllowedScan(city_normalized, allowed_cities) ==
    IF allowed_cities = <<>> THEN FALSE
    ELSE IF city_normalized = normalize_city_name(Head(allowed_cities)) THEN TRUE
    ELSE AllowedScan(city_normalized, Tail(allowed_cities))

\* is_city_allowed without the test of lines 153-154 for an empty or absent
\* city.
is_city_allowed_NoGuard(city_name, allowed_cities) ==
    AllowedScan(normalize_city_name(city_name), allowed_cities)

is_city_allowed(city_name, allowed_cities) ==
    IF ~Truthy(city_name) THEN FALSE
    ELSE AllowedScan(normalize_city_name(city_name), allowed_cities)

(***************************************************************************)
(* Addresses and names                                                     *)
(***************************************************************************)
EMPTY == <<>>
LOOPBACK == <<"1","2","7",".","0",".","0",".","1">>
LOCALHOST == <<"l","o","c","a","l","h","o","s","t">>
UNKNOWN == <<"U","n","k","n","o","w","n">>
PREFIX_192_168 == <<"1","9","2",".","1","6","8",".">>
PREFIX_10 == <<"1","0",".">>
IpPrivate192 == <<"1","9","2",".","1","6","8",".","1",".","5">>
IpPrivate10 == <<"1","0",".","0",".","0",".","1">>
IpPublicA == <<"2","0","3",".","0",".","1","1","3",".","9">>
IpPublicB == <<"1","9","8",".","5","1",".","1","0","0",".","7">>
Palmas == <<"P","a","l","m","a","s">>

(***************************************************************************)
(* The outside world: what one requests.get can do                         *)
(***************************************************************************)
Raise(exc, msg) == [t |-> "raise", exc |-> exc, msg |-> msg]
Response(status_code, body) ==
    [t |-> "response", status_code |-> status_code, body |-> body]
TextBody(s) == [t |-> "text", s |-> s]
JsonBody(v) == [t |-> "json", v |-> v]

TransportFailures ==
    { Raise("Timeout", "Read timed out."),
      Raise("ConnectionError", "Connection refused") }

\* response.json(): the parsed document, or ValueError on a body that is no JSON
ResponseJson(response) ==
    IF response.body.t = "json"
    THEN [ok |-> TRUE, v |-> response.body.v]
    ELSE [ok |-> FALSE, exc |-> Raise("JSONDecodeError", "Expecting value")]

ResponseText(response) == response.body.s

(***************************************************************************)
(* State                                                                   *)
(***************************************************************************)
VARIABLES
    session,    \* st.session_state: the host's session key-value store
    op,         \* the function the host called last ("none" before any call)
    pc,         \* where that call stands; "idle" when nothing is running
    i,          \* get_client_ip: index into apis of the provider tried next
    args,       \* the arguments of the call
    calls,      \* the requests.get calls of this invocation, with what came back
    ip,         \* get_client_info: the value get_client_ip() returned
    ret         \* the value returned to the host

vars == <<session, op, pc, i, args, calls, ip, ret>>

NoVal == [t |-> "unset"]
\* an exception that leaves the called function
Raised(exc) == [t |-> "raised", exc |-> exc]

\* The host fills the session out of band: session_id when the session starts,
\* the two client_* keys when the client-side script reports.  A key it has
\* not set is missing from the store.
SessionValues ==
    [client_ip_real |-> S(IpPublicA),
     client_city_real |-> S(Palmas),
     session_id |-> S(<<"s","1">>)]
Sessions ==
    { [k \in K |-> SessionValues[k]] :
        K \in {X \in SUBSET DOMAIN SessionValues : X = {} \/ "session_id" \in X} }

\* Reading st.session_state works inside a running script and raises
\* outside of one.
SessionAccess == {"ok", "raises"}

Init ==
    /\ session \in Sessions
    /\ op = "none"
    /\ pc = "idle"
    /\ i = 0
    /\ args = <<>>
    /\ calls = <<>>
    /\ ip = NoVal
    /\ ret = NoVal

\* The host calls a function when no call is running and the result of the
\* call before has been dropped.
Idle == pc = "idle" /\ op = "none"
Begin(name, a) ==
    /\ op' = name
    /\ args' = a

\* Nothing of a call outlives it but the session: the host drops the
\* arguments, the locals and the result.
discard_result ==
    /\ pc = "idle"
    /\ op # "none"
    /\ op' = "none"
    /\ i' = 0
    /\ args' = <<>>
    /\ calls' = <<>>
    /\ ip' = NoVal
    /\ ret' = NoVal
    /\ UNCHANGED <<session, pc>>

(***************************************************************************)
(* get_client_ip_from_session, get_client_city_from_session                *)
(***************************************************************************)
\* get_client_ip_from_session that stores the default under the key it did
\* not find (st.session_state.setdefault in the place of .get).
get_client_ip_from_session_SetDefault ==
    Idle /\ \E access \in SessionAccess :
        /\ Begin("get_client_ip_from_session", <<>>)
        /\ ret' = IF access = "ok"
                  THEN DictGet(session, "client_ip_real", None)
                  ELSE None
        /\ session' = IF access = "ok"
                      THEN [k \in DOMAIN session \cup {"client_ip_real"} |->
                              DictGet(session, k, None)]
                      ELSE session
        /\ calls' = <<>>
        /\ ip' = NoVal
        /\ UNCHANGED <<pc, i>>

get_client_ip_from_session ==
    Idle /\ \E access \in SessionAccess :
        /\ Begin("get_client_ip_from_session", <<>>)
        /\ ret' = IF access = "ok"
                  THEN DictGet(session, "client_ip_real", None)
                  ELSE None
        /\ calls' = <<>>
        /\ ip' = NoVal
        /\ UNCHANGED <<session, pc, i>>

get_client_city_from_session ==
    Idle /\ \E access \in SessionAccess :
        /\ Begin("get_client_city_from_session", <<>>)
        /\ ret' = IF access = "ok"
                  THEN DictGet(session, "client_city_real", None)
                  ELSE None
        /\ calls' = <<>>
        /\ ip' = NoVal
        /\ UNCHANGED <<session, pc, i>>

(***************************************************************************)
(* get_client_ip                                                           *)
(***************************************************************************)
\* apis with ipify listed a second time, in the place of ipapi.co.
apis_IpifyTwice ==
    << "https://api.ipify.org?format=json",
       "https://api.ipify.org?format=json",
       "https://icanhazip.com",
       "https://ifconfig.me/ip" >>

apis ==
    << "https://api.ipify.org?format=json",
       "https://ipapi.co/ip/",
       "https://icanhazip.com",
       "https://ifconfig.me/ip" >>

GEO_QUERY_URL == "http://ip-api.com/json/?fields=query"

\* 'ipify' in api_url
HasIpify(api_url) == api_url = "https://api.ipify.org?format=json"

Request(url, timeout, out) == [url |-> url, timeout |-> timeout, out |-> out]

\* What an IP-echo provider can send back as its address.
EchoTexts ==
    { EMPTY, LOOPBACK, IpPrivate192, IpPrivate10, IpPublicA \o <<"\n">>, IpPublicB }
EchoJsons ==
    { PyList, Dict(<<>>), Dict([ip |-> None]), Dict([ip |-> PyInt(7)]) }
      \cup { Dict([ip |-> S(a)]) :
               a \in {LOOPBACK, IpPrivate192, IpPrivate10, IpPublicA, IpPublicB} }

\* The bare except of the loop treats every exception alike: the raw-text
\* providers are given the timeout only.
EchoOutcomes(api_url) ==
    { Response(503, TextBody(IpPublicA)) }
      \cup ( IF HasIpify(api_url)
             THEN TransportFailures
                    \cup { Response(200, TextBody(IpPublicA)) }
                    \cup { Response(200, JsonBody(v)) : v \in EchoJsons }
             ELSE { Raise("Timeout", "Read timed out.") }
                    \cup { Response(200, TextBody(s)) : s \in EchoTexts } )

\* Acceptable without the test for the '10.' prefix.
Acceptable_No10Prefix(v) ==
    IF ~Truthy(v) THEN "reject"
    ELSE IF v.t # "str" THEN "raise"
    ELSE IF v.s = LOOPBACK THEN "reject"
    ELSE IF StartsWith(v.s, PREFIX_192_168) THEN "reject"
    ELSE "accept"

\* The test of line 47 on the extracted value: "accept", "reject", or "raise"
\* when the value is truthy but no str (it has no startswith).
Acceptable(v) ==
    IF ~Truthy(v) THEN "reject"
    ELSE IF v.t # "str" THEN "raise"
    ELSE IF v.s = LOOPBACK THEN "reject"
    ELSE IF StartsWith(v.s, PREFIX_192_168) THEN "reject"
    ELSE IF StartsWith(v.s, PREFIX_10) THEN "reject"
    ELSE "accept"

Continue == [returns |-> FALSE]
Return(v) == [returns |-> TRUE, v |-> v]

\* One turn of the loop over apis, given what requests.get did: the body of the
\* inner try, whose bare except turns every exception into `continue`.
TryApi(api_url, out) ==
    IF out.t = "raise" THEN Continue
    ELSE IF out.status_code # 200 THEN Continue
    ELSE IF HasIpify(api_url)
         THEN LET json == ResponseJson(out)
              IN IF ~json.ok THEN Continue
                 ELSE IF json.v.t # "dict" THEN Continue
                 ELSE LET v == DictGet(json.v.d, "ip", S(EMPTY))
                      IN IF Acceptable(v) = "accept" THEN Return(v) ELSE Continue
         ELSE LET v == S(Strip(ResponseText(out)))
              IN IF Acceptable(v) = "accept" THEN Return(v) ELSE Continue

\* What the auto-detecting geolocation provider can send back.
GeoQueryOutcomes ==
    TransportFailures
      \cup { Response(503, JsonBody(Dict([query |-> S(IpPublicA)]))),
            Response(200, TextBody(EMPTY)),
            Response(200, JsonBody(PyList)),
            Response(200, JsonBody(Dict(<<>>))),
            Response(200, JsonBody(Dict([query |-> None]))) }
      \cup { Response(200, JsonBody(Dict([query |-> S(a)]))) :
               a \in {EMPTY, LOOPBACK, IpPrivate10, IpPublicA} }

\* The fallback of lines 54-65, given what requests.get did.  Its bare except
\* and the one of the loop leave nothing that could reach the outer handler
\* of line 66, so 'Unknown' is never returned.
TryGeoQuery(out) ==
    IF out.t = "raise" THEN Return(S(LOOPBACK))
    ELSE IF out.status_code # 200 THEN Return(S(LOOPBACK))
    ELSE LET json == ResponseJson(out)
         IN IF ~json.ok THEN Return(S(LOOPBACK))
            ELSE IF json.v.t # "dict" THEN Return(S(LOOPBACK))
            ELSE LET v == DictGet(json.v.d, "query", S(EMPTY))
                 IN IF Truthy(v) THEN Return(v) ELSE Return(S(LOOPBACK))

\* get_client_ip returns v: to the host, or into get_client_info.
ReturnIp(v) ==
    IF op = "get_client_ip"
    THEN /\ ret' = v
         /\ pc' = "idle"
         /\ UNCHANGED ip
    ELSE /\ ip' = v
         /\ pc' = "info"
         /\ UNCHANGED ret

call_get_client_ip ==
    /\ Idle
    /\ Begin("get_client_ip", <<>>)
    /\ pc' = "echo"
    /\ i' = 1
    /\ calls' = <<>>
    /\ ip' = NoVal
    /\ ret' = NoVal
    /\ UNCHANGED session

\* for api_url in apis: one requests.get and what the loop body makes of it
get_client_ip_echo ==
    /\ pc = "echo"
    /\ \E out \in EchoOutcomes(apis[i]) :
          LET r == TryApi(apis[i], out)
          IN /\ calls' = Append(calls, Request(apis[i], 3, out))
             /\ IF r.returns
                THEN ReturnIp(r.v) /\ UNCHANGED i
                ELSE /\ IF i < Len(apis)
                        THEN i' = i + 1 /\ UNCHANGED pc
                        ELSE pc' = "geo" /\ UNCHANGED i
                     /\ UNCHANGED <<ip, ret>>
    /\ UNCHANGED <<session, op, args>>

\* after the loop: the geolocation provider's own view of the caller's address
get_client_ip_geo ==
    /\ pc = "geo"
    /\ \E out \in GeoQueryOutcomes :
          /\ calls' = Append(calls, Request(GEO_QUERY_URL, 3, out))
          /\ ReturnIp(TryGeoQuery(out).v)
    /\ UNCHANGED <<session, op, args, i>>

(***************************************************************************)
(* get_user_agent, get_client_info                                         *)
(***************************************************************************)
\* st.get_option("browser.gatherUsageStats"): the option's value, or an
\* exception
UsageStatsOption == {"True", "False", "raises"}

get_user_agent(option) ==
    CASE option = "True" -> S("Streamlit App")
      [] option = "False" -> S("Unknown Browser")
      [] option = "raises" -> S("Unknown Browser")

call_get_client_info ==
    /\ Idle
    /\ Begin("get_client_info", <<>>)
    /\ pc' = "echo"
    /\ i' = 1
    /\ calls' = <<>>
    /\ ip' = NoVal
    /\ ret' = NoVal
    /\ UNCHANGED session

\* get_client_ip() has returned: the rest of the dict display.  The session
\* read is outside any try.
get_client_info_build ==
    /\ pc = "info"
    /\ \E option \in UsageStatsOption, access \in SessionAccess :
          ret' = IF access = "raises"
                 THEN Raised("session_state")
                 ELSE Dict([ip |-> ip,
                            user_agent |-> get_user_agent(option),
                            session_id |-> DictGet(session, "session_id",
                                                   S(<<"u","n","k","n","o","w","n">>))])
    /\ pc' = "idle"
    /\ UNCHANGED <<session, op, i, args, calls, ip>>

NextIp ==
    \/ get_client_ip_from_session
    \/ get_client_city_from_session
    \/ call_get_client_ip
    \/ call_get_client_info
    \/ get_client_ip_echo
    \/ get_client_ip_geo
    \/ get_client_info_build
    \/ discard_result

SpecIp == Init /\ [][NextIp]_vars

(***************************************************************************)
(* Properties                                                              *)
(***************************************************************************)
IpOps == {"get_client_ip", "get_client_info"}
IpRunning == pc \in {"echo", "geo"}
\* the value get_client_ip has returned
ResolvedIp == IF op = "get_client_ip" THEN ret ELSE ip

\* The address a provider reported in a logged request: the `ip` field
\* (ipify), the `query` field (ip-api.com) or the trimmed body; None when
\* the provider did not answer HTTP 200 with such a value.
ReportedValue(call) ==
    IF call.out.t # "response" THEN None
    ELSE IF call.out.status_code # 200 THEN None
    ELSE IF call.url \in {apis[1], GEO_QUERY_URL}
         THEN LET field == IF call.url = apis[1] THEN "ip" ELSE "query"
                  body == call.out.body
              IN IF body.t = "json" /\ body.v.t = "dict" /\ field \in DOMAIN body.v.d
                 THEN body.v.d[field]
                 ELSE None
         ELSE S(Strip(call.out.body.s))

\* acceptable: a non-empty string, not the loopback address, not in the two
\* private ranges
AcceptableValue(v) ==
    /\ v.t = "str"
    /\ v.s # <<>>
    /\ v.s # LOOPBACK
    /\ SubSeq(v.s, 1, 8) # PREFIX_192_168
    /\ SubSeq(v.s, 1, 3) # PREFIX_10

\* C1: get_client_ip tries ipify, ipapi.co, icanhazip, ifconfig.me in that
\* order; the call returns the value of the earliest echo provider that
\* answered HTTP 200 with an acceptable value, and no provider is called after
\* that one; while no echo provider has given an acceptable value the call is
\* still running or has gone on to the geolocation provider.
C1_FirstAcceptableWins ==
    op \in IpOps =>
        LET acc == {k \in 1..Len(calls) :
                      k <= 4 /\ AcceptableValue(ReportedValue(calls[k]))}
        IN /\ Len(calls) <= 5
           /\ \A k \in 1..Len(calls) :
                 calls[k].url = IF k <= 4 THEN apis[k] ELSE GEO_QUERY_URL
           /\ IF acc = {}
              THEN IpRunning \/ Len(calls) = 5
              ELSE /\ acc = {Len(calls)}
                   /\ ~IpRunning
                   /\ ResolvedIp = ReportedValue(calls[Len(calls)])

\* C1 witness: provider 1 answers 192.168.1.5, provider 2 answers 203.0.113.9:
\* the call returns 203.0.113.9 after two requests.
C1_Witness ==
    /\ op = "get_client_ip"
    /\ pc = "idle"
    /\ Len(calls) = 2
    /\ ReportedValue(calls[1]) = S(IpPrivate192)
    /\ ReportedValue(calls[2]) = S(IpPublicA)
    /\ ret = S(IpPublicA)

\* C2: when every provider called (the four echo providers and the
\* auto-detecting geolocation provider) failed, answered non-200 or reported an
\* empty or unacceptable value, get_client_ip returns '127.0.0.1' and raises
\* nothing.
C2_TotalFailureLoopback ==
    ( /\ op \in IpOps
      /\ ~IpRunning
      /\ Len(calls) = 5
      /\ \A k \in 1..5 : ~AcceptableValue(ReportedValue(calls[k])) )
    => ResolvedIp = S(LOOPBACK)

(***************************************************************************)
(* get_city_from_ip                                                        *)
(***************************************************************************)
\* IsLocalOrInvalid with 'Unknown' left out of the list.
IsLocalOrInvalid_NoUnknown(a) == a.t = "str" /\ a.s \in {LOOPBACK, LOCALHOST}

\* ip in ['127.0.0.1', 'localhost', 'Unknown']
IsLocalOrInvalid(a) == a.t = "str" /\ a.s \in {LOOPBACK, LOCALHOST, UNKNOWN}

\* f'http://ip-api.com/json/{ip}?fields=status,message,city,regionName,country'
GeoUrl(a) ==
    [base |-> "http://ip-api.com/json/",
     ip |-> PyStr(a),
     query |-> "?fields=status,message,city,regionName,country"]

GeoFailure(error) ==
    Dict([city |-> None, region |-> None, country |-> None,
          success |-> Bool(FALSE), error |-> error])

\* GeoSuccess reading the key 'region' where the provider sends 'regionName'.
GeoSuccess_RegionKey(data) ==
    Dict([city |-> DictGet(data, "city", S(EMPTY)),
          region |-> DictGet(data, "region", S(EMPTY)),
          country |-> DictGet(data, "country", S(EMPTY)),
          success |-> Bool(TRUE)])

GeoSuccess(data) ==
    Dict([city |-> DictGet(data, "city", S(EMPTY)),
          region |-> DictGet(data, "regionName", S(EMPTY)),
          country |-> DictGet(data, "country", S(EMPTY)),
          success |-> Bool(TRUE)])

\* The addresses the host passes in.
GeoIps ==
    { None, S(EMPTY), S(LOOPBACK), S(LOCALHOST), S(UNKNOWN),
      S(IpPublicA), S(IpPrivate10) }

\* What ip-api.com can answer: each field sent or left out.
Absent == [t |-> "absent"]
WithoutAbsent(f) == [k \in {x \in DOMAIN f : f[x].t # "absent"} |-> f[k]]
GeoDicts ==
    { WithoutAbsent([status |-> s, message |-> m, city |-> c,
                     regionName |-> r, country |-> n]) :
        s \in {Absent, S("success"), S("fail")},
        m \in {Absent, None, S("invalid query")},
        c \in {Absent, None, S(EMPTY), S(Palmas), S(<<" ">> \o Palmas \o <<" ">>)},
        r \in {Absent, S(<<"T","o","c","a","n","t","i","n","s"," ">>)},
        n \in {Absent, S(<<"B","r","a","z","i","l">>)} }

GeoOutcomes ==
    TransportFailures
      \cup { Response(404, TextBody(EMPTY)),
            Response(204, TextBody(EMPTY)),
            Response(200, TextBody(EMPTY)),
            Response(200, JsonBody(PyList)) }
      \cup { Response(200, JsonBody(Dict(d))) : d \in GeoDicts }

\* GeoExcept without the clause for requests.exceptions.Timeout.
GeoExcept_NoTimeoutClause(e) == GeoFailure(S(e.msg))

\* The two except clauses of lines 134-149.
GeoExcept(e) ==
    IF e.exc = "Timeout"
    THEN GeoFailure(S("Timeout na requisição"))
    ELSE GeoFailure(S(e.msg))

\* Lines 107-149, given what requests.get did.
GeoResult(out) ==
    IF out.t = "raise" THEN GeoExcept(out)
    ELSE IF out.status_code = 200
         THEN LET json == ResponseJson(out)
              IN IF ~json.ok THEN GeoExcept(json.exc)
                 ELSE IF json.v.t # "dict"
                      THEN GeoExcept(Raise("AttributeError",
                                           "'list' object has no attribute 'get'"))
                 ELSE LET data == json.v.d
                          status == DictGet(data, "status", None)
                      IN IF status.t = "str" /\ status.s = "success"
                         THEN GeoSuccess(data)
                         ELSE GeoFailure(DictGet(data, "message", S("Erro na API")))
         ELSE GeoFailure(S("Erro HTTP " \o ToString(out.status_code)))

call_get_city_from_ip ==
    Idle /\ \E a \in GeoIps :
        /\ Begin("get_city_from_ip", <<a>>)
        /\ calls' = <<>>
        /\ ip' = NoVal
        /\ IF IsLocalOrInvalid(a)
           THEN /\ ret' = GeoFailure(S("IP local ou inválido"))
                /\ UNCHANGED pc
           ELSE /\ ret' = NoVal
                /\ pc' = "request"
        /\ UNCHANGED <<session, i>>

\* the one requests.get of get_city_from_ip and what is made of the answer
get_city_from_ip_request ==
    /\ pc = "request"
    /\ \E out \in GeoOutcomes :
          /\ calls' = Append(calls, Request(GeoUrl(args[1]), 5, out))
          /\ ret' = GeoResult(out)
    /\ pc' = "idle"
    /\ UNCHANGED <<session, op, i, args, ip>>

NextGeo ==
    \/ call_get_city_from_ip
    \/ get_city_from_ip_request
    \/ discard_result

SpecGeo == Init /\ [][NextGeo]_vars

GeoDone == op = "get_city_from_ip" /\ pc = "idle"
GeoFailed(r) == r.t = "dict" /\ r.d.success = Bool(FALSE) /\ "error" \in DOMAIN r.d
IsHttp(out) == out.t = "response"
\* the provider's JSON document of an HTTP 200 answer, <<>> when there is none
ProviderData(out) ==
    IF IsHttp(out) /\ out.status_code = 200 /\ out.body.t = "json"
       /\ out.body.v.t = "dict"
    THEN out.body.v.d
    ELSE <<>>
ProviderSaysSuccess(out) ==
    /\ IsHttp(out) /\ out.status_code = 200
    /\ "status" \in DOMAIN ProviderData(out)
    /\ ProviderData(out).status = S("success")

\* C3: whatever the provider does, get_city_from_ip returns a result and
\* raises nothing; on a timeout, another transport or parse failure, an HTTP
\* status outside 2xx or a provider-reported failure the result has
\* success=false and an error naming the failure: the timeout text, the
\* status code, the provider's message, or the exception's description.
C3_FailuresBecomeResults ==
    GeoDone =>
        /\ ret.t = "dict"
        /\ \A k \in 1..Len(calls) :
              LET out == calls[k].out
              IN /\ (out.t = "raise" /\ out.exc = "Timeout")
                       => GeoFailed(ret) /\ ret.d.error = S("Timeout na requisição")
                 /\ (out.t = "raise" /\ out.exc # "Timeout")
                       => GeoFailed(ret) /\ ret.d.error = S(out.msg)
                 /\ (IsHttp(out) /\ out.status_code = 200 /\ out.body.t = "text")
                       => GeoFailed(ret) /\ ret.d.error = S("Expecting value")
                 /\ (IsHttp(out) /\ out.status_code = 200 /\ out.body.t = "json"
                       /\ out.body.v.t = "list")
                       => /\ GeoFailed(ret)
                          /\ ret.d.error = S("'list' object has no attribute 'get'")
                 /\ (IsHttp(out) /\ out.status_code \notin 200..299)
                       => /\ GeoFailed(ret)
                          /\ ret.d.error = S("Erro HTTP " \o ToString(out.status_code))
                 /\ ("status" \in DOMAIN ProviderData(out)
                       /\ ProviderData(out).status = S("fail")
                       /\ "message" \in DOMAIN ProviderData(out))
                       => GeoFailed(ret) /\ ret.d.error = ProviderData(out).message

\* C3 witness: the request timed out and the call returned the timeout result.
C3_Witness ==
    /\ GeoDone
    /\ Len(calls) = 1
    /\ calls[1].out.t = "raise"
    /\ calls[1].out.exc = "Timeout"
    /\ ret = GeoFailure(S("Timeout na requisição"))

IsPyStr(v) == v.t = "str"
\* C4: every result of get_city_from_ip is well formed: with success=true,
\* city, region and country are strings (never null) and there is no error;
\* with success=false, error is present and not null and city, region and
\* country are null.
C4_GeoResultInvariant ==
    GeoDone =>
        /\ ret.t = "dict"
        /\ IF ret.d.success = Bool(TRUE)
           THEN /\ IsPyStr(ret.d.city) /\ IsPyStr(ret.d.region) /\ IsPyStr(ret.d.country)
                /\ "error" \notin DOMAIN ret.d
           ELSE /\ "error" \in DOMAIN ret.d
                /\ ret.d.error # None
                /\ ret.d.city = None /\ ret.d.region = None /\ ret.d.country = None

\* C5: called with '127.0.0.1', 'localhost' or 'Unknown', get_city_from_ip
\* returns success=false with the error 'IP local ou inválido' and makes no
\* outbound call.
C5_SentinelShortCircuit ==
    ( /\ op = "get_city_from_ip"
      /\ args[1] \in {S(LOOPBACK), S(LOCALHOST), S(UNKNOWN)} )
    => /\ pc = "idle"
       /\ calls = <<>>
       /\ ret = GeoFailure(S("IP local ou inválido"))

\* C5 witness: the call with 'Unknown' has returned.
C5_Witness ==
    /\ GeoDone
    /\ args = <<S(UNKNOWN)>>
    /\ ret.d.success = Bool(FALSE)
    /\ calls = <<>>

\* C9: called with ip absent (None or empty), get_city_from_ip sends a request
\* without an IP and the result of a successful lookup carries resolved_ip;
\* called with an ip that is present and no sentinel, the request carries
\* exactly that ip.
C9_AutoDetect ==
    (GeoDone /\ Len(calls) = 1) =>
        IF Truthy(args[1])
        THEN calls[1].url.ip = args[1].s
        ELSE /\ calls[1].url.ip = <<>>
             /\ (ret.d.success = Bool(TRUE) => "resolved_ip" \in DOMAIN ret.d)

\* the provider's field, trimmed; '' when the provider left it out
TrimmedField(data, key) ==
    IF key \notin DOMAIN data THEN S(EMPTY)
    ELSE IF IsPyStr(data[key]) THEN S(Strip(data[key].s))
    ELSE data[key]

\* C10 as stated: on HTTP 200 with status 'success' the result has
\* success=true and city, region, country are the provider's city, regionName
\* and country with surrounding whitespace trimmed.
C10_TrimmedFields ==
    (GeoDone /\ Len(calls) = 1 /\ ProviderSaysSuccess(calls[1].out)) =>
        LET data == ProviderData(calls[1].out)
        IN /\ ret.d.success = Bool(TRUE)
           /\ ret.d.city = TrimmedField(data, "city")
           /\ ret.d.region = TrimmedField(data, "regionName")
           /\ ret.d.country = TrimmedField(data, "country")

\* the provider's field as sent; '' when the provider left it out
VerbatimField(data, key) == IF key \in DOMAIN data THEN data[key] ELSE S(EMPTY)

\* C10 amended: on HTTP 200 with status 'success' the result has success=true
\* and city, region, country are the provider's city, regionName and country
\* exactly as sent, whitespace included ('' for a field left out).
C10_VerbatimFields ==
    (GeoDone /\ Len(calls) = 1 /\ ProviderSaysSuccess(calls[1].out)) =>
        LET data == ProviderData(calls[1].out)
        IN /\ ret.d.success = Bool(TRUE)
           /\ ret.d.city = VerbatimField(data, "city")
           /\ ret.d.region = VerbatimField(data, "regionName")
           /\ ret.d.country = VerbatimField(data, "country")

\* C10 witness: the provider reported ' Palmas ' and a region, left the
\* country out, and the call returned them.
C10_Witness ==
    /\ GeoDone
    /\ Len(calls) = 1
    /\ ProviderSaysSuccess(calls[1].out)
    /\ "city" \in DOMAIN ProviderData(calls[1].out)
    /\ ProviderData(calls[1].out).city = S(<<" ">> \o Palmas \o <<" ">>)
    /\ "regionName" \in DOMAIN ProviderData(calls[1].out)
    /\ "country" \notin DOMAIN ProviderData(calls[1].out)
    /\ ret.d.city = S(<<" ">> \o Palmas \o <<" ">>)
    /\ ret.d.country = S(EMPTY)

(***************************************************************************)
(* The host calling normalize_city_name and is_city_allowed                *)
(***************************************************************************)
MaxNameLen == 2
MaxAllow == 2

NameChars == {"P", "a", "a_tilde", " ", "-", ",", "\n"}

RECURSIVE StringsUpTo(_, _)
StringsUpTo(chars, n) ==
    IF n = 0 THEN {<<>>}
    ELSE LET shorter == StringsUpTo(chars, n - 1)
         IN shorter \cup {Append(s, c) : s \in shorter, c \in chars}

Names == StringsUpTo(NameChars, MaxNameLen)

\* a hyphen and a two-letter region code, with or without blanks around the
\* hyphen
RegionSuffixes ==
    { h \o r : h \in {<<"-">>, <<" ","-">>, <<"-"," ">>, <<" ","-"," ">>},
               r \in {<<"T","O">>, <<"t","o">>, <<"S","p">>} }

\* names of more than one line: a comma in the first line and one that opens
\* the last line
MultiLineNames ==
    { <<",","a","\n",",">>,
      <<"P","a",","," ","a","\n"," ",",","a">> }

call_normalize_city_name ==
    Idle /\ \E n \in Names \cup MultiLineNames, suffix \in {<<>>} \cup RegionSuffixes, none \in BOOLEAN :
        LET city_name == IF none THEN None ELSE S(n \o suffix)
        IN /\ Begin("normalize_city_name", <<city_name>>)
           /\ ret' = normalize_city_name(city_name)
           /\ calls' = <<>>
           /\ ip' = NoVal
           /\ UNCHANGED <<session, pc, i>>

PalmasTO == Palmas \o <<" ","-"," ","T","O">>
SaoPaulo == <<"S","a_tilde","o"," ","P","a","u","l","o">>
\* The city names the host passes to is_city_allowed, as the resolved city or
\* as entries of the allow-list.
CityPool ==
    { None, S(EMPTY), S(Palmas), S(<<"p","a","l","m","a","s"," ">>),
      S(PalmasTO),
      S(Palmas \o <<","," ","T","O">>),
      S(SaoPaulo), S(<<"s","a","o"," ","p","a","u","l","o">>),
      S(<<",","x">>) }

RECURSIVE ListsUpTo(_, _)
ListsUpTo(pool, n) ==
    IF n = 0 THEN {<<>>}
    ELSE LET shorter == ListsUpTo(pool, n - 1)
         IN shorter \cup {Append(l, e) : l \in shorter, e \in pool}

AllowLists == ListsUpTo(CityPool, MaxAllow)

call_is_city_allowed ==
    Idle /\ \E city_name \in CityPool, allowed_cities \in AllowLists :
        /\ Begin("is_city_allowed", <<city_name, allowed_cities>>)
        /\ ret' = Bool(is_city_allowed(city_name, allowed_cities))
        /\ calls' = <<>>
        /\ ip' = NoVal
        /\ UNCHANGED <<session, pc, i>>

NextCity ==
    \/ call_normalize_city_name
    \/ call_is_city_allowed
    \/ discard_result

SpecCity == Init /\ [][NextCity]_vars

Next == NextIp \/ NextGeo \/ NextCity

Spec == Init /\ [][Next]_vars

\* the orderings of a list
Orderings(l) ==
    { [k \in 1..Len(l) |-> l[p[k]]] :
        p \in {q \in [1..Len(l) -> 1..Len(l)] :
                 \A a, b \in 1..Len(l) : q[a] = q[b] => a = b} }

\* C6: is_city_allowed is false for an empty or absent city and for an empty
\* allow-list, and otherwise true exactly when some entry of the allow-list
\* normalizes to the normalized city; every ordering of the allow-list gives
\* the same answer.
C6_AllowedIffSomeEntryMatches ==
    op = "is_city_allowed" =>
        LET city_name == args[1]
            allowed_cities == args[2]
        IN /\ ret = Bool( /\ Truthy(city_name)
                          /\ \E k \in 1..Len(allowed_cities) :
                                normalize_city_name(allowed_cities[k])
                                  = normalize_city_name(city_name) )
           /\ \A l \in Orderings(allowed_cities) :
                 Bool(is_city_allowed(city_name, l)) = ret

\* C6 witness: 'palmas ' is admitted by its second entry of ['São Paulo',
\* 'Palmas'].
C6_Witness ==
    /\ op = "is_city_allowed"
    /\ args = <<S(<<"p","a","l","m","a","s"," ">>), <<S(SaoPaulo), S(Palmas)>>>>
    /\ ret = Bool(TRUE)

\* C7: a name followed by a hyphen and two letters (any case, blanks around
\* the hyphen or not) normalizes to what the name alone normalizes to, and
\* is_city_allowed('Palmas - TO', ['Palmas']) is true.
C7_RegionSuffixStripped ==
    /\ op = "normalize_city_name" /\ args[1].t = "str" =>
          \A k \in 0..Len(args[1].s) :
              SubSeq(args[1].s, k + 1, Len(args[1].s)) \in RegionSuffixes
                => ret = normalize_city_name(S(SubSeq(args[1].s, 1, k)))
    /\ op = "is_city_allowed" /\ args = <<S(PalmasTO), <<S(Palmas)>>>>
          => ret = Bool(TRUE)

\* C8: when the session holds client_ip_real, get_client_info reports that
\* address and contacts no provider.
C8_SessionOverride ==
    ( /\ op = "get_client_info"
      /\ "client_ip_real" \in DOMAIN session )
    => /\ calls = <<>>
       /\ (pc = "idle" /\ ret.t = "dict" => ret.d.ip = session.client_ip_real)

\* C11: normalize_city_name is idempotent: normalizing a name it returned
\* gives that name again, for every name (several region suffixes, commas,
\* blanks and line breaks included).
C11_Idempotent ==
    op = "normalize_city_name" => normalize_city_name(ret) = ret

\* a call is between its entry and its return
Running == pc \in {"echo", "geo", "request"}

\* the request log of a call: get_client_ip asks apis[1..4] in that order and
\* then the auto-detecting geolocation provider, each at most once;
\* get_city_from_ip asks once at most; a call that has not returned can take
\* its next step
CallLogBounded ==
    /\ op \in IpOps =>
          /\ Len(calls) <= Len(apis) + 1
          /\ \A k \in 1..Len(calls) :
                calls[k].url = IF k <= Len(apis) THEN apis[k] ELSE GEO_QUERY_URL
          /\ \A a, b \in 1..Len(calls) : a # b => calls[a].url # calls[b].url
          /\ (pc = "echo" => Len(calls) = i - 1 /\ ENABLED get_client_ip_echo)
          /\ (pc = "geo" => Len(calls) = Len(apis) /\ ENABLED get_client_ip_geo)
    /\ op = "get_city_from_ip" =>
          /\ Len(calls) <= 1
          /\ (pc = "request" => calls = <<>> /\ ENABLED get_city_from_ip_request)
    /\ Running => op \in IpOps \cup {"get_city_from_ip"}

\* each step of a call that has not returned makes exactly one request, after
\* the ones already made; nothing else makes a request
CallLogStep ==
    /\ Running =>
          /\ op' = op
          /\ Len(calls') = Len(calls) + 1
          /\ SubSeq(calls', 1, Len(calls)) = calls
    /\ (~Running /\ op' = op) => calls' = calls

\* C12: the outbound calls of one invocation are made one after the other
\* and no provider is asked twice: get_client_ip asks each echo provider at
\* most once and the auto-detecting geolocation provider at most once, after
\* all four echo providers, so at most five requests are made and, each step
\* making one, the call returns; get_city_from_ip makes at most one request.
C12_SequentialNoRetry == []CallLogBounded /\ [][CallLogStep]_vars

\* C12 witness: get_client_ip has returned after five requests, the fifth to
\* the geolocation provider.
C12_Witness ==
    /\ op = "get_client_ip"
    /\ pc = "idle"
    /\ Len(calls) = 5
    /\ calls[5].url = GEO_QUERY_URL

\* C13: a result of get_city_from_ip with success false (the ones for the
\* addresses '127.0.0.1' and 'Unknown' included) carries a city that
\* is_city_allowed admits under no allow-list.
C13_FailedResolutionDenies ==
    (GeoDone /\ ret.t = "dict" /\ ret.d.success = Bool(FALSE)) =>
        \A allowed_cities \in AllowLists :
            ~is_city_allowed(ret.d.city, allowed_cities)

\* C13 witness: the provider answered status 'fail' and named Palmas; the
\* result is a failure and its city is not admitted by ['Palmas'], nor by a
\* list holding an absent entry.
C13_Witness ==
    /\ GeoDone
    /\ Len(calls) = 1
    /\ ~ProviderSaysSuccess(calls[1].out)
    /\ "city" \in DOMAIN ProviderData(calls[1].out)
    /\ ProviderData(calls[1].out).city = S(Palmas)
    /\ ret.d.success = Bool(FALSE)
    /\ ~is_city_allowed(ret.d.city, <<S(Palmas)>>)
    /\ ~is_city_allowed(ret.d.city, <<None>>)

\* a step of the core leaves the session store as it was, and leaves the
\* arguments of a call (the allow-list of is_city_allowed among them) as the
\* host passed them for as long as the host holds them
NoWriteStep ==
    /\ session' = session
    /\ (op # "none" /\ op' = op) => args' = args
    /\ op' = "is_city_allowed" =>
          /\ args'[2] \in AllowLists
          /\ ret' = Bool(is_city_allowed(args'[1], args'[2]))

\* C14: no operation writes to the session store: every step of
\* get_client_ip_from_session, get_client_city_from_session, get_client_ip,
\* get_city_from_ip, is_city_allowed and get_client_info, on every path,
\* leaves the session as it was; is_city_allowed leaves the allow-list as it
\* was passed.
C14_SessionNeverWritten == [][NoWriteStep]_vars

\* C14 witness: get_client_info has returned its dict (after five failed
\* requests) and the session still holds its three keys.
C14_Witness ==
    /\ op = "get_client_info"
    /\ pc = "idle"
    /\ ret.t = "dict"
    /\ Len(calls) = 5
    /\ session = SessionValues

\* C15: whatever the providers answer, get_client_ip returns no address that
\* starts with '192.168.' or '10.', and it returns '127.0.0.1' only as the
\* fallback after every provider failed, never because a provider (the
\* auto-detecting geolocation provider included) reported it.
C15_FilterHoldsForResolver ==
    (op \in IpOps /\ ~IpRunning /\ ResolvedIp.t = "str") =>
        /\ ~StartsWith(ResolvedIp.s, PREFIX_192_168)
        /\ ~StartsWith(ResolvedIp.s, PREFIX_10)
        /\ ResolvedIp = S(LOOPBACK) =>
              /\ Len(calls) = Len(apis) + 1
              /\ \A k \in 1..Len(calls) : ReportedValue(calls[k]) # S(LOOPBACK)

\* C16: is_city_allowed admits no city that is not empty and normalizes to
\* the empty string (a name that begins with a comma), whatever the
\* allow-list holds: empty, absent or comma-leading entries included.
C16_EmptyNormalizedNeverAdmitted ==
    ( /\ op = "is_city_allowed"
      /\ Truthy(args[1])
      /\ normalize_city_name(args[1]) = S(EMPTY) )
    => ret = Bool(FALSE)

====
